---- MODULE Spec2Model ----
(***************************************************************************)
(* web3-uptime-monitor: the UptimeMonitor ledger contract                  *)
(* (src/unnamed/part_002), the RewardToken it pays with                    *)
(* (src/packages/contracts/scripts/deploy.js) and the observer node        *)
(* runtime (src/packages/monitoring-node/src/services/MonitoringNode.js).  *)
(*                                                                         *)
(* Token amounts are in whole tokens (10^18 base units each): every amount *)
(* the contract, the fixture and the node handle is a multiple of it.      *)
(* Fields that only store block.timestamp (registrationTime, createdAt,    *)
(* lastCheckedAt, MonitoringResult.timestamp) decide nothing in the        *)
(* contract and are left out of the records.                               *)
(***************************************************************************)
EXTENDS Integers, Sequences, FiniteSets, TLC

-----------------------------------------------------------------------------
(* Addresses *)

Owner == "owner"
Requester == "requester"
\* the addresses that come to hold a node record: the three node signers and
\* the requester, the fourth funded account
Nodes == {"n1", "n2", "n3", Requester}
Contract == "contract"
NoAddress == "0x0"
Accounts == Nodes \cup {Owner, Requester, Contract}

(* Program constants *)
INITIAL_SUPPLY == 1000000000
InitialMinimumStake == 1000
InitialConsensusThreshold == 66
maxResponseTime == 30000
StartingReputation == 100
MinInterval == 60
MaxCommittee == 3
FixtureTransfer == 10000
FixtureReward == 1000000

MINIMUM_STAKE == 1000

(* Bounds of the model *)
MaxRequests == 2
MaxTx == 6
MAX_CONCURRENT_CHECKS == 2
NodeRequests == 3
MaxClockSteps == 1
MaxQueue == 1
LongQueue == 2
FloorRequests == 100
ConsensusMaxTx == 8
CustodyMaxTx == 7
CommitteeRequests == 1
CommitteeMaxTx == 7
ShutdownRequests == 2

-----------------------------------------------------------------------------
(* Ledger state *)

VARIABLES
    balances,            \* RewardToken balanceOf
    allowances,          \* RewardToken allowance(owner, UptimeMonitor)
    minimumStake,
    consensusThreshold,
    paused,
    nextRequestId,       \* _nextRequestId
    monitoringNodes,
    monitoringRequests,  \* id -> MonitoringRequest, ids 1 .. nextRequestId-1
    monitoringResults,   \* id -> node -> MonitoringResult
    requestNodes,        \* id -> committee, in assignment order
    nodeRequests,        \* node -> ids, in assignment order
    activeNodes,
    activeRequests,
    last,                \* the last mined transaction: call and events
    consensusCount,      \* id -> number of ConsensusReached events emitted
    submitLog,           \* id -> the observers that submitted, in order
    txCount              \* number of mined (not reverted) transactions

ledgerVars == <<balances, allowances, minimumStake, consensusThreshold, paused,
                nextRequestId, monitoringNodes, monitoringRequests,
                monitoringResults, requestNodes, nodeRequests, activeNodes,
                activeRequests, last, consensusCount, submitLog,
                txCount>>

VARIABLES
    isRunning,
    assignedRequests,    \* the Map, as its entries in insertion order
    checkQueue,
    isProcessingQueue,
    probes,              \* the performMonitoringCheck calls in flight
    shutdown,            \* index.js shutdown(): where the handler stands
    waiting,             \* the processCheckQueue calls awaiting their batch
    sync,                \* where the syncWithBlockchain run stands
    now                  \* Date.now()

nodeVars == <<isRunning, assignedRequests, checkQueue, isProcessingQueue,
              probes, waiting, sync, now, shutdown>>

\* The contract's and the token's storage as one value.
ledger ==
    [balances |-> balances, allowances |-> allowances,
     minimumStake |-> minimumStake, consensusThreshold |-> consensusThreshold,
     paused |-> paused, nextRequestId |-> nextRequestId,
     monitoringNodes |-> monitoringNodes,
     monitoringRequests |-> monitoringRequests,
     monitoringResults |-> monitoringResults,
     requestNodes |-> requestNodes, nodeRequests |-> nodeRequests,
     activeNodes |-> activeNodes, activeRequests |-> activeRequests]

EmptyNode ==
    [nodeAddress |-> NoAddress, stake |-> 0, reputation |-> 0,
     totalChecks |-> 0, successfulChecks |-> 0, isActive |-> FALSE]

EmptyResult ==
    [node |-> NoAddress, isUp |-> FALSE, responseTime |-> 0, isSubmitted |-> FALSE]

\* deployContractsFixture: both contracts deployed, nodes, requester and
\* contract funded, nobody registered.
deployContractsFixture ==
    [balances |-> [a \in Accounts |->
                      IF a \in Nodes \cup {Requester} THEN FixtureTransfer
                      ELSE IF a = Contract THEN FixtureReward
                      ELSE INITIAL_SUPPLY
                             - Cardinality(Nodes \cup {Requester}) * FixtureTransfer
                             - FixtureReward],
     allowances |-> [a \in Nodes |-> 0],
     minimumStake |-> InitialMinimumStake,
     consensusThreshold |-> InitialConsensusThreshold,
     paused |-> FALSE,
     nextRequestId |-> 1,
     monitoringNodes |-> [a \in Nodes |-> EmptyNode],
     monitoringRequests |-> <<>>,
     monitoringResults |-> <<>>,
     requestNodes |-> <<>>,
     nodeRequests |-> [a \in Nodes |-> <<>>],
     activeNodes |-> <<>>,
     activeRequests |-> <<>>]

-----------------------------------------------------------------------------
(* Transaction outcomes: a revert leaves the storage as it was. *)

Event(name, id, who, flag, num) ==
    [name |-> name, id |-> id, who |-> who, flag |-> flag, num |-> num]

Revert(s, why) == [ok |-> FALSE, reason |-> why, s |-> s, events |-> <<>>]

Ok(s, evs) == [ok |-> TRUE, reason |-> "", s |-> s, events |-> evs]

(* RewardToken (OpenZeppelin ERC20): transfer and transferFrom revert when *)
(* the balance or the allowance does not cover the amount.                 *)

\* transfer that leaves the balances alone when the balance is short
transfer_Silent(s, from, to, amount) ==
    IF s.balances[from] < amount
    THEN Ok(s, <<>>)
    ELSE Ok([s EXCEPT !.balances[from] = @ - amount,
                      !.balances[to] = @ + amount], <<>>)

transfer(s, from, to, amount) ==
    IF s.balances[from] < amount
    THEN Revert(s, "ERC20InsufficientBalance")
    ELSE Ok([s EXCEPT !.balances[from] = @ - amount,
                      !.balances[to] = @ + amount], <<>>)

transferFrom(s, from, to, amount) ==
    IF s.allowances[from] < amount
    THEN Revert(s, "ERC20InsufficientAllowance")
    ELSE IF s.balances[from] < amount
    THEN Revert(s, "ERC20InsufficientBalance")
    ELSE Ok([s EXCEPT !.allowances[from] = @ - amount,
                      !.balances[from] = @ - amount,
                      !.balances[to] = @ + amount], <<>>)

approve(s, sender, amount) ==
    Ok([s EXCEPT !.allowances[sender] = amount], <<>>)

-----------------------------------------------------------------------------
(* Array helpers *)

\* the first index of x in seq, 0 when absent
IndexOf(seq, x) ==
    IF \E i \in 1..Len(seq) : seq[i] = x
    THEN CHOOSE i \in 1..Len(seq) :
            seq[i] = x /\ \A j \in 1..(i - 1) : seq[j] # x
    ELSE 0

\* removal that pops the last entry without the swap
SwapPop_PopOnly(seq, x) ==
    LET i == IndexOf(seq, x) IN
    IF i = 0 THEN seq
    ELSE SubSeq(seq, 1, Len(seq) - 1)

\* for (i...) if (arr[i] == x) { arr[i] = arr[length-1]; arr.pop(); break; }
SwapPop(seq, x) ==
    LET i == IndexOf(seq, x) IN
    IF i = 0 THEN seq
    ELSE SubSeq([seq EXCEPT ![i] = seq[Len(seq)]], 1, Len(seq) - 1)

Contains(seq, x) == \E i \in 1..Len(seq) : seq[i] = x

-----------------------------------------------------------------------------
(* UptimeMonitor: node management *)

\* registerNode without its require on isActive
registerNode_Twice(s, sender) ==
    IF s.paused THEN Revert(s, "EnforcedPause")
    ELSE LET t == transferFrom(s, sender, Contract, s.minimumStake) IN
         IF ~t.ok THEN Revert(s, t.reason)
         ELSE Ok([t.s EXCEPT
                    !.monitoringNodes[sender] =
                        [nodeAddress |-> sender, stake |-> s.minimumStake,
                         reputation |-> StartingReputation, totalChecks |-> 0,
                         successfulChecks |-> 0, isActive |-> TRUE],
                    !.activeNodes = Append(@, sender)],
                 <<Event("MonitoringNodeRegistered", 0, sender, FALSE,
                         s.minimumStake)>>)

\* registerNode without whenNotPaused
registerNode_WhilePaused(s, sender) ==
    IF s.monitoringNodes[sender].isActive
    THEN Revert(s, "Node already registered")
    ELSE LET t == transferFrom(s, sender, Contract, s.minimumStake) IN
         IF ~t.ok THEN Revert(s, t.reason)
         ELSE Ok([t.s EXCEPT
                    !.monitoringNodes[sender] =
                        [nodeAddress |-> sender, stake |-> s.minimumStake,
                         reputation |-> StartingReputation, totalChecks |-> 0,
                         successfulChecks |-> 0, isActive |-> TRUE],
                    !.activeNodes = Append(@, sender)],
                 <<Event("MonitoringNodeRegistered", 0, sender, FALSE,
                         s.minimumStake)>>)

registerNode(s, sender) ==
    IF s.paused THEN Revert(s, "EnforcedPause")
    ELSE IF s.monitoringNodes[sender].isActive
    THEN Revert(s, "Node already registered")
    ELSE LET t == transferFrom(s, sender, Contract, s.minimumStake) IN
         IF ~t.ok THEN Revert(s, t.reason)
         ELSE Ok([t.s EXCEPT
                    !.monitoringNodes[sender] =
                        [nodeAddress |-> sender, stake |-> s.minimumStake,
                         reputation |-> StartingReputation, totalChecks |-> 0,
                         successfulChecks |-> 0, isActive |-> TRUE],
                    !.activeNodes = Append(@, sender)],
                 <<Event("MonitoringNodeRegistered", 0, sender, FALSE,
                         s.minimumStake)>>)

unregisterNode(s, sender) ==
    IF ~s.monitoringNodes[sender].isActive
    THEN Revert(s, "Node not registered or inactive")
    ELSE IF ~(s.monitoringNodes[sender].stake > 0)
    THEN Revert(s, "No stake to withdraw")
    ELSE LET stakeToReturn == s.monitoringNodes[sender].stake
             s1 == [s EXCEPT !.monitoringNodes[sender].stake = 0,
                             !.monitoringNodes[sender].isActive = FALSE,
                             !.activeNodes = SwapPop(@, sender)]
             t == transfer(s1, Contract, sender, stakeToReturn)
         IN IF ~t.ok THEN Revert(s, t.reason)
            ELSE Ok(t.s, <<Event("MonitoringNodeUnregistered", 0, sender,
                                 FALSE, 0)>>)

addStake(s, sender, amount) ==
    IF ~s.monitoringNodes[sender].isActive
    THEN Revert(s, "Node not registered or inactive")
    ELSE IF ~(amount > 0) THEN Revert(s, "Amount must be greater than 0")
    ELSE LET t == transferFrom(s, sender, Contract, amount) IN
         IF ~t.ok THEN Revert(s, t.reason)
         ELSE Ok([t.s EXCEPT !.monitoringNodes[sender].stake = @ + amount],
                 <<>>)

-----------------------------------------------------------------------------
(* UptimeMonitor: internal functions *)

RECURSIVE AssignLoop(_, _, _, _)
\* for (i = 0; i < nodesToAssign; i++) { requestNodes.push; nodeRequests.push }
AssignLoop(s, requestId, i, nodesToAssign) ==
    IF i > nodesToAssign THEN s
    ELSE LET nodeAddress == s.activeNodes[i] IN
         AssignLoop([s EXCEPT !.requestNodes[requestId] = Append(@, nodeAddress),
                              !.nodeRequests[nodeAddress] = Append(@, requestId)],
                    requestId, i + 1, nodesToAssign)

\* _assignNodesToRequest that assigns every active node
_assignNodesToRequest_All(s, requestId) ==
    LET nodesToAssign == Len(s.activeNodes)
    IN IF ~(nodesToAssign > 0) THEN Revert(s, "No active nodes available")
       ELSE Ok(AssignLoop(s, requestId, 1, nodesToAssign), <<>>)

\* _assignNodesToRequest without its require on nodesToAssign
_assignNodesToRequest_Unchecked(s, requestId) ==
    LET nodesToAssign == IF Len(s.activeNodes) >= MaxCommittee
                         THEN MaxCommittee ELSE Len(s.activeNodes)
    IN Ok(AssignLoop(s, requestId, 1, nodesToAssign), <<>>)

_assignNodesToRequest(s, requestId) ==
    LET nodesToAssign == IF Len(s.activeNodes) >= MaxCommittee
                         THEN MaxCommittee ELSE Len(s.activeNodes)
    IN IF ~(nodesToAssign > 0) THEN Revert(s, "No active nodes available")
       ELSE Ok(AssignLoop(s, requestId, 1, nodesToAssign), <<>>)

\* _isNodeAssignedToRequest that finds every node
_isNodeAssignedToRequest_Any(s, requestId, node) == TRUE

_isNodeAssignedToRequest(s, requestId, node) ==
    Contains(s.requestNodes[requestId], node)

RECURSIVE DistributeLoop_NoFloor(_, _, _, _, _, _)
\* the loop of _distributeRewards with a penalty that does not stop at 1
DistributeLoop_NoFloor(r, requestId, consensusResult, nodes, reward, i) ==
    IF ~r.ok \/ i > Len(nodes) THEN r
    ELSE
      LET nodeAddress == nodes[i]
          result == r.s.monitoringResults[requestId][nodeAddress]
      IN
      IF ~result.isSubmitted
      THEN DistributeLoop_NoFloor(r, requestId, consensusResult, nodes, reward,
                                  i + 1)
      ELSE IF result.isUp = consensusResult
      THEN LET s1 == [r.s EXCEPT
                        !.monitoringNodes[nodeAddress].successfulChecks = @ + 1,
                        !.monitoringNodes[nodeAddress].reputation = @ + 1]
               t == transfer(s1, Contract, nodeAddress, reward)
           IN IF ~t.ok THEN Revert(r.s, t.reason)
              ELSE DistributeLoop_NoFloor(
                     Ok(t.s, Append(r.events,
                           Event("RewardDistributed", 0, nodeAddress,
                                 FALSE, reward))),
                     requestId, consensusResult, nodes, reward, i + 1)
      ELSE LET s1 == IF r.s.monitoringNodes[nodeAddress].reputation > 0
                     THEN [r.s EXCEPT
                             !.monitoringNodes[nodeAddress].reputation = @ - 1]
                     ELSE r.s
           IN DistributeLoop_NoFloor(
                Ok(s1, Append(r.events,
                      Event("PenaltyApplied", 0, nodeAddress, FALSE, 0))),
                requestId, consensusResult, nodes, reward, i + 1)

RECURSIVE DistributeLoop(_, _, _, _, _, _)
\* the loop of _distributeRewards over the committee, from member i on;
\* r carries the storage and the events so far
DistributeLoop(r, requestId, consensusResult, nodes, reward, i) ==
    IF ~r.ok \/ i > Len(nodes) THEN r
    ELSE
      LET nodeAddress == nodes[i]
          result == r.s.monitoringResults[requestId][nodeAddress]
      IN
      IF ~result.isSubmitted
      THEN DistributeLoop(r, requestId, consensusResult, nodes, reward, i + 1)
      ELSE IF result.isUp = consensusResult
      THEN LET s1 == [r.s EXCEPT
                        !.monitoringNodes[nodeAddress].successfulChecks = @ + 1,
                        !.monitoringNodes[nodeAddress].reputation = @ + 1]
               t == transfer(s1, Contract, nodeAddress, reward)
           IN IF ~t.ok THEN Revert(r.s, t.reason)
              ELSE DistributeLoop(
                     Ok(t.s, Append(r.events,
                           Event("RewardDistributed", 0, nodeAddress,
                                 FALSE, reward))),
                     requestId, consensusResult, nodes, reward, i + 1)
      ELSE LET s1 == IF r.s.monitoringNodes[nodeAddress].reputation > 1
                     THEN [r.s EXCEPT
                             !.monitoringNodes[nodeAddress].reputation = @ - 1]
                     ELSE r.s
           IN DistributeLoop(
                Ok(s1, Append(r.events,
                      Event("PenaltyApplied", 0, nodeAddress, FALSE, 0))),
                requestId, consensusResult, nodes, reward, i + 1)

_distributeRewards(s, requestId, consensusResult) ==
    DistributeLoop(Ok(s, <<>>), requestId, consensusResult,
                   s.requestNodes[requestId],
                   s.monitoringRequests[requestId].reward, 1)

RECURSIVE CountLoop(_, _, _, _, _)
\* the counting loop of _checkConsensus: acc = <<submittedCount, upCount,
\* totalResponseTime>> after members 1 .. i-1
CountLoop(s, requestId, nodes, i, acc) ==
    IF i > Len(nodes) THEN acc
    ELSE LET res == s.monitoringResults[requestId][nodes[i]] IN
         CountLoop(s, requestId, nodes, i + 1,
                   IF res.isSubmitted
                   THEN <<acc[1] + 1,
                          IF res.isUp THEN acc[2] + 1 ELSE acc[2],
                          acc[3] + res.responseTime>>
                   ELSE acc)

\* consensusIsUp with a strict comparison
consensusIsUp_Strict(upCount, submittedCount, threshold) ==
    (upCount * 100) > (submittedCount * threshold)

\* bool consensusIsUp = (upCount * 100) >= (submittedCount * consensusThreshold)
consensusIsUp(upCount, submittedCount, threshold) ==
    (upCount * 100) >= (submittedCount * threshold)

\* submittedCount > 0 ? totalResponseTime / submittedCount : 0
averageResponseTime(totalResponseTime, submittedCount) ==
    IF submittedCount > 0 THEN totalResponseTime \div submittedCount ELSE 0

\* _checkConsensus that settles on every submission
_checkConsensus_OnAnySubmission(s, requestId) ==
    LET nodes == s.requestNodes[requestId]
        acc == CountLoop(s, requestId, nodes, 1, <<0, 0, 0>>)
        submittedCount == acc[1]
        upCount == acc[2]
        totalResponseTime == acc[3]
    IN
    IF submittedCount > 0
    THEN LET isUp == consensusIsUp(upCount, submittedCount,
                                   s.consensusThreshold)
             avg == averageResponseTime(totalResponseTime, submittedCount)
             d == _distributeRewards(s, requestId, isUp)
         IN IF ~d.ok THEN Revert(s, d.reason)
            ELSE Ok(d.s, <<Event("ConsensusReached", requestId, NoAddress,
                                 isUp, avg)>> \o d.events)
    ELSE Ok(s, <<>>)

_checkConsensus(s, requestId) ==
    LET nodes == s.requestNodes[requestId]
        acc == CountLoop(s, requestId, nodes, 1, <<0, 0, 0>>)
        submittedCount == acc[1]
        upCount == acc[2]
        totalResponseTime == acc[3]
    IN
    IF submittedCount = Len(nodes)
    THEN LET isUp == consensusIsUp(upCount, submittedCount,
                                   s.consensusThreshold)
             avg == averageResponseTime(totalResponseTime, submittedCount)
             d == _distributeRewards(s, requestId, isUp)
         IN IF ~d.ok THEN Revert(s, d.reason)
            ELSE Ok(d.s, <<Event("ConsensusReached", requestId, NoAddress,
                                 isUp, avg)>> \o d.events)
    ELSE Ok(s, <<>>)

-----------------------------------------------------------------------------
(* UptimeMonitor: monitoring requests and results *)

\* createMonitoringRequest without its require on the interval
createMonitoringRequest_AnyInterval(s, sender, url, interval, timeout, rewardPerCheck) ==
    IF s.paused THEN Revert(s, "EnforcedPause")
    ELSE IF ~(Len(url) > 0) THEN Revert(s, "URL cannot be empty")
    ELSE IF ~(timeout <= maxResponseTime) THEN Revert(s, "Timeout too high")
    ELSE IF ~(rewardPerCheck > 0) THEN Revert(s, "Reward must be greater than 0")
    ELSE
      LET requestId == s.nextRequestId
          s1 == [s EXCEPT
                   !.nextRequestId = @ + 1,
                   !.monitoringRequests = Append(@,
                       [id |-> requestId, requester |-> sender, url |-> url,
                        interval |-> interval, timeout |-> timeout,
                        reward |-> rewardPerCheck, isActive |-> TRUE]),
                   !.monitoringResults = Append(@, [n \in Nodes |-> EmptyResult]),
                   !.requestNodes = Append(@, <<>>),
                   !.activeRequests = Append(@, requestId)]
          a == _assignNodesToRequest(s1, requestId)
      IN IF ~a.ok THEN Revert(s, a.reason)
         ELSE Ok(a.s, <<Event("MonitoringRequestCreated", requestId, sender,
                              FALSE, 0)>>)

createMonitoringRequest(s, sender, url, interval, timeout, rewardPerCheck) ==
    IF s.paused THEN Revert(s, "EnforcedPause")
    ELSE IF ~(Len(url) > 0) THEN Revert(s, "URL cannot be empty")
    ELSE IF ~(interval >= MinInterval)
    THEN Revert(s, "Interval must be at least 60 seconds")
    ELSE IF ~(timeout <= maxResponseTime) THEN Revert(s, "Timeout too high")
    ELSE IF ~(rewardPerCheck > 0) THEN Revert(s, "Reward must be greater than 0")
    ELSE
      LET requestId == s.nextRequestId
          s1 == [s EXCEPT
                   !.nextRequestId = @ + 1,
                   !.monitoringRequests = Append(@,
                       [id |-> requestId, requester |-> sender, url |-> url,
                        interval |-> interval, timeout |-> timeout,
                        reward |-> rewardPerCheck, isActive |-> TRUE]),
                   !.monitoringResults = Append(@, [n \in Nodes |-> EmptyResult]),
                   !.requestNodes = Append(@, <<>>),
                   !.activeRequests = Append(@, requestId)]
          a == _assignNodesToRequest(s1, requestId)
      IN IF ~a.ok THEN Revert(s, a.reason)
         ELSE Ok(a.s, <<Event("MonitoringRequestCreated", requestId, sender,
                              FALSE, 0)>>)

\* modifier validRequest: "" when it passes, else the revert reason
validRequest(s, requestId) ==
    IF ~(requestId > 0 /\ requestId < s.nextRequestId) THEN "Invalid request ID"
    ELSE IF ~s.monitoringRequests[requestId].isActive THEN "Request not active"
    ELSE ""

\* deactivateMonitoringRequest without its require on the caller
deactivateMonitoringRequest_Anyone(s, sender, requestId) ==
    IF validRequest(s, requestId) # "" THEN Revert(s, validRequest(s, requestId))
    ELSE Ok([s EXCEPT !.monitoringRequests[requestId].isActive = FALSE,
                      !.activeRequests = SwapPop(@, requestId)], <<>>)

deactivateMonitoringRequest(s, sender, requestId) ==
    IF validRequest(s, requestId) # "" THEN Revert(s, validRequest(s, requestId))
    ELSE IF ~(s.monitoringRequests[requestId].requester = sender \/ sender = Owner)
    THEN Revert(s, "Not authorized")
    ELSE Ok([s EXCEPT !.monitoringRequests[requestId].isActive = FALSE,
                      !.activeRequests = SwapPop(@, requestId)], <<>>)

\* submitMonitoringResult without its require on isSubmitted
submitMonitoringResult_Again(s, sender, requestId, isUp, responseTime) ==
    IF ~s.monitoringNodes[sender].isActive
    THEN Revert(s, "Node not registered or inactive")
    ELSE IF validRequest(s, requestId) # ""
    THEN Revert(s, validRequest(s, requestId))
    ELSE IF ~_isNodeAssignedToRequest(s, requestId, sender)
    THEN Revert(s, "Node not assigned to this request")
    ELSE
      LET s1 == [s EXCEPT
                   !.monitoringResults[requestId][sender] =
                       [node |-> sender, isUp |-> isUp,
                        responseTime |-> responseTime, isSubmitted |-> TRUE],
                   !.monitoringNodes[sender].totalChecks = @ + 1]
          c == _checkConsensus(s1, requestId)
      IN IF ~c.ok THEN Revert(s, c.reason)
         ELSE Ok(c.s, <<Event("MonitoringResultSubmitted", requestId, sender,
                              isUp, responseTime)>> \o c.events)

submitMonitoringResult(s, sender, requestId, isUp, responseTime) ==
    IF ~s.monitoringNodes[sender].isActive
    THEN Revert(s, "Node not registered or inactive")
    ELSE IF validRequest(s, requestId) # ""
    THEN Revert(s, validRequest(s, requestId))
    ELSE IF s.monitoringResults[requestId][sender].isSubmitted
    THEN Revert(s, "Result already submitted")
    ELSE IF ~_isNodeAssignedToRequest(s, requestId, sender)
    THEN Revert(s, "Node not assigned to this request")
    ELSE
      LET s1 == [s EXCEPT
                   !.monitoringResults[requestId][sender] =
                       [node |-> sender, isUp |-> isUp,
                        responseTime |-> responseTime, isSubmitted |-> TRUE],
                   !.monitoringNodes[sender].totalChecks = @ + 1]
          c == _checkConsensus(s1, requestId)
      IN IF ~c.ok THEN Revert(s, c.reason)
         ELSE Ok(c.s, <<Event("MonitoringResultSubmitted", requestId, sender,
                              isUp, responseTime)>> \o c.events)

-----------------------------------------------------------------------------
(* UptimeMonitor: admin functions *)

setMinimumStake(s, sender, newMinimumStake) ==
    IF sender # Owner THEN Revert(s, "OwnableUnauthorizedAccount")
    ELSE Ok([s EXCEPT !.minimumStake = newMinimumStake], <<>>)

\* setConsensusThreshold without its require on the range
setConsensusThreshold_Unchecked(s, sender, threshold) ==
    IF sender # Owner THEN Revert(s, "OwnableUnauthorizedAccount")
    ELSE Ok([s EXCEPT !.consensusThreshold = threshold], <<>>)

setConsensusThreshold(s, sender, threshold) ==
    IF sender # Owner THEN Revert(s, "OwnableUnauthorizedAccount")
    ELSE IF ~(threshold >= 51 /\ threshold <= 100)
    THEN Revert(s, "Threshold must be between 51-100")
    ELSE Ok([s EXCEPT !.consensusThreshold = threshold], <<>>)

pause(s, sender) ==
    IF sender # Owner THEN Revert(s, "OwnableUnauthorizedAccount")
    ELSE IF s.paused THEN Revert(s, "EnforcedPause")
    ELSE Ok([s EXCEPT !.paused = TRUE], <<>>)

unpause(s, sender) ==
    IF sender # Owner THEN Revert(s, "OwnableUnauthorizedAccount")
    ELSE IF ~s.paused THEN Revert(s, "ExpectedPause")
    ELSE Ok([s EXCEPT !.paused = FALSE], <<>>)

emergencyWithdraw(s, sender) ==
    IF sender # Owner THEN Revert(s, "OwnableUnauthorizedAccount")
    ELSE LET t == transfer(s, Contract, Owner, s.balances[Contract]) IN
         IF ~t.ok THEN Revert(s, t.reason) ELSE Ok(t.s, <<>>)

-----------------------------------------------------------------------------
(* Transactions as steps of the ledger *)

\* What a mined transaction leaves in last: the call and its events.
NoCall == [op |-> "deploy", sender |-> Owner, id |-> 0, events |-> <<>>]

Receipt(r, op, sender, id) ==
    [op |-> op, sender |-> sender, id |-> id, events |-> r.events]

\* the events of evs named name
EventsNamed(evs, name) == {i \in 1..Len(evs) : evs[i].name = name}

ConsensusEvents(evs, requestId) ==
    {i \in EventsNamed(evs, "ConsensusReached") : evs[i].id = requestId}

\* The transaction with outcome r is mined. A call that reverts leaves the
\* storage as it was and is no step of the ledger: what the contract answers
\* to such a call is read off the function's outcome in the state at hand.
Applied(r, op, sender, id) ==
    /\ r.ok
    /\ balances' = r.s.balances
    /\ allowances' = r.s.allowances
    /\ minimumStake' = r.s.minimumStake
    /\ consensusThreshold' = r.s.consensusThreshold
    /\ paused' = r.s.paused
    /\ nextRequestId' = r.s.nextRequestId
    /\ monitoringNodes' = r.s.monitoringNodes
    /\ monitoringRequests' = r.s.monitoringRequests
    /\ monitoringResults' = r.s.monitoringResults
    /\ requestNodes' = r.s.requestNodes
    /\ nodeRequests' = r.s.nodeRequests
    /\ activeNodes' = r.s.activeNodes
    /\ activeRequests' = r.s.activeRequests
    /\ last' = Receipt(r, op, sender, id)
    /\ consensusCount' =
         [i \in 1..Len(r.s.monitoringRequests) |->
            (IF i <= Len(consensusCount) THEN consensusCount[i] ELSE 0)
              + Cardinality(ConsensusEvents(r.events, i))]
    /\ submitLog' =
         [i \in 1..Len(r.s.monitoringRequests) |->
            LET old == IF i <= Len(submitLog) THEN submitLog[i] ELSE <<>> IN
            IF op = "submitMonitoringResult" /\ id = i
            THEN Append(old, sender) ELSE old]

\* a call that is not the observed node's
Called(r, op, sender, id) ==
    /\ Applied(r, op, sender, id)
    /\ UNCHANGED nodeVars

\* a transaction of UptimeMonitor; the model follows the ledger for in.maxTx
\* of them
Mined(r, op, sender, id, in) ==
    /\ txCount < in.maxTx
    /\ txCount' = txCount + 1
    /\ Called(r, op, sender, id)

\* RewardToken.approve by a node that has nothing approved: the stake its
\* registration needs, or what it wants to add to its stake
Approve(in) ==
    \E a \in in.nodes :
      \E amount \in IF monitoringNodes[a].isActive THEN in.amounts
                     ELSE {minimumStake} :
        /\ allowances[a] = 0
        /\ amount > 0
        /\ Called(approve(ledger, a, amount), "approve", a, 0)
        /\ UNCHANGED txCount

RegisterNode(in) ==
    \E a \in in.nodes :
        Mined(registerNode(ledger, a), "registerNode", a, 0, in)

UnregisterNode(in) ==
    \E a \in in.nodes :
        /\ Mined(unregisterNode(ledger, a), "unregisterNode", a, 0, in)

AddStake(in) ==
    \E a \in in.nodes, amount \in in.amounts \cup {0} :
        Mined(addStake(ledger, a, amount), "addStake", a, 0, in)

CreateMonitoringRequest(in) ==
    \E args \in in.requests :
        /\ nextRequestId <= in.maxRequests
        /\ in.serial => /\ \A a \in in.nodes : monitoringNodes[a].isActive
                        /\ \A i \in 1..Len(consensusCount) :
                              consensusCount[i] = 1
        /\ Mined(createMonitoringRequest(ledger, Requester, args[1], args[2],
                                         args[3], args[4]),
                 "createMonitoringRequest", Requester, nextRequestId, in)

DeactivateMonitoringRequest(in) ==
    \E sender \in in.deactivators, id \in 0..in.maxRequests :
        /\ Mined(deactivateMonitoringRequest(ledger, sender, id),
                 "deactivateMonitoringRequest", sender, id, in)

SubmitMonitoringResult(in) ==
    \E a \in in.nodes, id \in 0..in.maxRequests :
      \E isUp \in in.votes[a], responseTime \in in.responseTimes :
        /\ in.serial => /\ id \in 1..Len(submitLog)
                        /\ Len(submitLog[id]) < Len(requestNodes[id])
                        /\ a = requestNodes[id][Len(submitLog[id]) + 1]
        /\ Mined(submitMonitoringResult(ledger, a, id, isUp, responseTime),
                 "submitMonitoringResult", a, id, in)

SetMinimumStake(in) ==
    \E sender \in in.admins, v \in in.stakes :
        Mined(setMinimumStake(ledger, sender, v),
              "setMinimumStake", sender, 0, in)

SetConsensusThreshold(in) ==
    \E sender \in in.admins, v \in in.thresholds :
        Mined(setConsensusThreshold(ledger, sender, v),
              "setConsensusThreshold", sender, 0, in)

Pause(in) ==
    \E sender \in in.admins : Mined(pause(ledger, sender),
              "pause", sender, 0, in)

Unpause(in) ==
    \E sender \in in.admins : Mined(unpause(ledger, sender),
              "unpause", sender, 0, in)

EmergencyWithdraw(in) ==
    \E sender \in in.admins :
        Mined(emergencyWithdraw(ledger, sender),
              "emergencyWithdraw", sender, 0, in)

-----------------------------------------------------------------------------
(* The observer node runtime: MonitoringNode.js over BlockchainService.js. *)
(* The node's statistics (stats.totalChecks, stats.errors, ...) decide     *)
(* nothing in the handlers below and are left out.  One syncWithBlockchain *)
(* run is followed at a time.                                              *)

\* this.nodeAddress
Self == "n1"

Digits == <<"0", "1", "2", "3", "4", "5", "6", "7", "8", "9">>

RECURSIVE toString(_)
\* id.toString() of a uint256
toString(n) ==
    IF n < 10 THEN Digits[n + 1]
    ELSE toString(n \div 10) \o Digits[(n % 10) + 1]

\* the uint256 ethers encodes for the decimal string key
parseId(key) == CHOOSE n \in 0..99 : toString(n) = key

\* BlockchainService.getAssignedRequests when the query goes through
getAssignedRequests(s, nodeAddress) ==
    [i \in 1..Len(s.nodeRequests[nodeAddress]) |->
        toString(s.nodeRequests[nodeAddress][i])]

\* BlockchainService.getRequestInfo when the query goes through
getRequestInfo(s, key) ==
    LET info == s.monitoringRequests[parseId(key)] IN
    [id |-> toString(info.id), url |-> info.url, interval |-> info.interval,
     timeout |-> info.timeout]

NoSync == [pc |-> "idle", list |-> <<>>, i |-> 0]

\* The node's scheduling state as one value.
node ==
    [assignedRequests |-> assignedRequests, checkQueue |-> checkQueue,
     isProcessingQueue |-> isProcessingQueue, probes |-> probes,
     waiting |-> waiting]

\* Map.has that never finds the key
Has_Never(cache, key) == FALSE

\* Map.has / Map.set / the position of a key; a Map iterates in insertion
\* order and set() on a key it holds keeps the key's place
Has(cache, key) == \E i \in 1..Len(cache) : cache[i].id = key

MapSet(cache, key, entry) ==
    IF Has(cache, key)
    THEN [i \in 1..Len(cache) |-> IF cache[i].id = key THEN entry ELSE cache[i]]
    ELSE Append(cache, entry)

\* for (requestId of this.assignedRequests.keys())
\*     if (!assignedRequests.includes(requestId)) delete
RemoveUnassigned(cache, list) ==
    LET Listed(entry) == Contains(list, entry.id) IN SelectSeq(cache, Listed)

\* the request objects the node still refers to
LiveObjects(n) ==
    {n.assignedRequests[i].obj : i \in 1..Len(n.assignedRequests)}
        \cup {n.checkQueue[i].request : i \in 1..Len(n.checkQueue)}
        \cup {p.request : p \in n.probes}

NewObject(n) ==
    CHOOSE k \in 1..(Cardinality(LiveObjects(n)) + 1) :
        k \notin LiveObjects(n) /\ \A j \in 1..(k - 1) : j \in LiveObjects(n)

RECURSIVE SyncLoop(_, _, _)
\* syncWithBlockchain from the i-th listed id up to its next await: ids the
\* cache has are passed over, the first one it lacks is asked for; past the
\* list the ids that are not listed are deleted and the run ends
SyncLoop(cache, list, i) ==
    IF i > Len(list)
    THEN [assignedRequests |-> RemoveUnassigned(cache, list), sync |-> NoSync]
    ELSE IF Has(cache, list[i]) THEN SyncLoop(cache, list, i + 1)
    ELSE [assignedRequests |-> cache,
          sync |-> [pc |-> "getRequestInfo", list |-> list, i |-> i]]

\* checkQueue.sort comparator
CompareChecks(a, b) ==
    IF a.priority # b.priority THEN b.priority - a.priority
    ELSE a.timestamp - b.timestamp

InsertCheck(sorted, x) ==
    LET k == Cardinality({i \in 1..Len(sorted) :
                             CompareChecks(sorted[i], x) <= 0})
    IN SubSeq(sorted, 1, k) \o <<x>> \o SubSeq(sorted, k + 1, Len(sorted))

\* a sort that puts the checks pushed last in front
SortChecks_Reversed(queue) ==
    [i \in 1..Len(queue) |-> queue[Len(queue) + 1 - i]]

RECURSIVE SortChecks(_)
\* Array.prototype.sort is stable
SortChecks(queue) ==
    IF queue = <<>> THEN <<>>
    ELSE InsertCheck(SortChecks(SubSeq(queue, 1, Len(queue) - 1)),
                     queue[Len(queue)])

\* the checks pushed for the requests that are due at t, in Map order
DueChecks(cache, t) ==
    LET Due(entry) == entry.nextCheck <= t
        due == SelectSeq(cache, Due)
    IN [i \in 1..Len(due) |->
          [requestId |-> due[i].id, request |-> due[i].obj, priority |-> 0,
           timestamp |-> t]]

\* a batch id no running processCheckQueue uses
NewBatch(n) ==
    CHOOSE b \in 1..(Cardinality(n.waiting) + 1) :
        b \notin n.waiting /\ \A j \in 1..(b - 1) : j \in n.waiting

\* the try block of processCheckQueue at time t up to its await: the due
\* checks pushed, the sort, the splice and the performMonitoringCheck calls,
\* each up to its httpCheck; with no check to process the finally block
\* follows at once
ProcessDueChecks(n, t) ==
      LET cache == [i \in 1..Len(n.assignedRequests) |->
                      LET entry == n.assignedRequests[i] IN
                      IF entry.nextCheck <= t
                      THEN [entry EXCEPT !.nextCheck = t + entry.interval * 1000]
                      ELSE entry]
          queue == SortChecks(n.checkQueue \o DueChecks(n.assignedRequests, t))
          taken == IF Len(queue) < MAX_CONCURRENT_CHECKS THEN Len(queue)
                   ELSE MAX_CONCURRENT_CHECKS
          checksToProcess == SubSeq(queue, 1, taken)
          b == NewBatch(n)
      IN IF taken = 0
         THEN [n EXCEPT !.assignedRequests = cache, !.checkQueue = queue,
                        !.isProcessingQueue = FALSE]
         ELSE [n EXCEPT
                 !.assignedRequests = cache,
                 !.checkQueue = SubSeq(queue, taken + 1, Len(queue)),
                 !.isProcessingQueue = TRUE,
                 !.waiting = @ \cup {b},
                 !.probes = @ \cup
                     {[requestId |-> checksToProcess[k].requestId,
                       request |-> checksToProcess[k].request,
                       batch |-> b, slot |-> k, pc |-> "httpCheck",
                       isUp |-> FALSE, responseTime |-> 0] : k \in 1..taken}]

\* processCheckQueue that goes on while a batch is running
processCheckQueue_Reentrant(n, t) == ProcessDueChecks(n, t)

\* processCheckQueue at time t up to its await
processCheckQueue(n, t) ==
    IF n.isProcessingQueue THEN n ELSE ProcessDueChecks(n, t)

NodeBecomes(n) ==
    /\ assignedRequests' = n.assignedRequests
    /\ checkQueue' = n.checkQueue
    /\ isProcessingQueue' = n.isProcessingQueue
    /\ probes' = n.probes
    /\ waiting' = n.waiting

\* the process is there: its pending callbacks run until process.exit
Alive == shutdown # "exited"

\* start(): the node registers itself (approving the configured stake when
\* its allowance is lower) and schedules its jobs
StartNode ==
    /\ ~isRunning
    /\ ~monitoringNodes[Self].isActive
    /\ LET approved == IF allowances[Self] < MINIMUM_STAKE
                       THEN approve(ledger, Self, MINIMUM_STAKE).s ELSE ledger
       IN Applied(registerNode(approved, Self), "registerNode", Self, 0)
    /\ txCount' = txCount + 1
    /\ isRunning' = TRUE
    /\ UNCHANGED <<shutdown, assignedRequests, checkQueue, isProcessingQueue,
                   probes,
                   waiting, sync, now>>

\* time passes
AdvanceClock ==
    /\ now < MaxClockSteps * 1000 * MinInterval
    /\ now' = now + 1000 * MinInterval
    /\ UNCHANGED <<shutdown, isRunning, assignedRequests, checkQueue, isProcessingQueue,
                   probes, waiting, sync>>
    /\ UNCHANGED ledgerVars

\* the blockchainSync job fires: getAssignedRequests answers with the
\* ledger's list, or with [] when the query fails
SyncWithBlockchain ==
    /\ isRunning
    /\ sync.pc = "idle"
    /\ \E list \in {getAssignedRequests(ledger, Self), <<>>} :
         LET r == SyncLoop(assignedRequests, list, 1) IN
         /\ assignedRequests' = r.assignedRequests
         /\ sync' = r.sync
    /\ UNCHANGED <<shutdown, isRunning, checkQueue, isProcessingQueue, probes, waiting,
                   now>>
    /\ UNCHANGED ledgerVars

\* getRequestInfo answers: the request is cached as due now and the run goes
\* on to its next await
GetRequestInfoReturns ==
    /\ Alive
    /\ sync.pc = "getRequestInfo"
    /\ LET key == sync.list[sync.i]
           info == getRequestInfo(ledger, key)
           entry == [id |-> info.id, url |-> info.url,
                     interval |-> info.interval, timeout |-> info.timeout,
                     lastChecked |-> 0, nextCheck |-> now,
                     obj |-> NewObject(node)]
           r == SyncLoop(MapSet(assignedRequests, key, entry), sync.list,
                         sync.i + 1)
       IN /\ assignedRequests' = r.assignedRequests
          /\ sync' = r.sync
    /\ UNCHANGED <<shutdown, isRunning, checkQueue, isProcessingQueue, probes, waiting,
                   now>>
    /\ UNCHANGED ledgerVars

\* getRequestInfo throws: the run ends in its catch
GetRequestInfoThrows ==
    /\ Alive
    /\ sync.pc = "getRequestInfo"
    /\ sync' = NoSync
    /\ UNCHANGED <<shutdown, isRunning, assignedRequests, checkQueue, isProcessingQueue,
                   probes, waiting, now>>
    /\ UNCHANGED ledgerVars

\* the queueProcessor job fires
ProcessCheckQueue(in) ==
    /\ isRunning
    /\ LET n == processCheckQueue(node, now) IN
       /\ Len(n.checkQueue) <= in.maxQueue
       /\ NodeBecomes(n)
    /\ UNCHANGED <<shutdown, isRunning, sync, now>>
    /\ UNCHANGED ledgerVars

\* httpCheck: axios.get resolves when a response with a status below 500
\* arrives within the timeout (validateStatus) and rejects otherwise; status 0
\* stands for no response (timeout or connection error); elapsed is
\* Date.now() - startTime
httpCheck(status, elapsed) ==
    IF status # 0 /\ status < 500
    THEN [isUp |-> TRUE, responseTime |-> elapsed, statusCode |-> status]
    ELSE [isUp |-> FALSE, responseTime |-> elapsed, statusCode |-> status]

\* httpCheck of probe p answers (it never throws): the probe notes the time
\* on its request object and goes on to submitResult
HttpCheckReturns(in) ==
    \E p \in probes : \E status \in in.outcomes :
      \E elapsed \in in.responseTimes :
        /\ Alive
        /\ p.pc = "httpCheck"
        /\ probes' = (probes \ {p}) \cup
               {[p EXCEPT !.pc = "submitResult",
                          !.isUp = httpCheck(status, elapsed).isUp,
                          !.responseTime =
                              httpCheck(status, elapsed).responseTime]}
        /\ assignedRequests' =
               [i \in 1..Len(assignedRequests) |->
                   IF assignedRequests[i].obj = p.request
                   THEN [assignedRequests[i] EXCEPT !.lastChecked = now]
                   ELSE assignedRequests[i]]
        /\ UNCHANGED <<shutdown, isRunning, checkQueue, isProcessingQueue,
                       waiting, sync, now>>
        /\ UNCHANGED ledgerVars

\* what a call of the node does to the ledger: a reverted call throws
Sent(r, op, id) ==
    IF r.ok THEN Applied(r, op, Self, id) /\ UNCHANGED txCount
    ELSE UNCHANGED ledgerVars

\* submitResult of probe p returns or throws; when it throws the probe's catch
\* block goes on to submit the error result (result keeps the httpCheck value)
SubmitResultReturns ==
    \E p \in probes :
        /\ Alive
        /\ p.pc = "submitResult"
        /\ LET id == parseId(p.requestId)
               r == submitMonitoringResult(ledger, Self, id, p.isUp,
                                           p.responseTime)
           IN /\ Sent(r, "submitMonitoringResult", id)
              /\ probes' = IF r.ok THEN probes \ {p}
                           ELSE (probes \ {p}) \cup
                                {[p EXCEPT !.pc = "submitErrorResult"]}
        /\ UNCHANGED <<shutdown, isRunning, assignedRequests, checkQueue,
                       isProcessingQueue, waiting, sync, now>>

\* the error result's submitResult returns or throws; the probe is over
SubmitErrorResultReturns ==
    \E p \in probes :
        /\ Alive
        /\ p.pc = "submitErrorResult"
        /\ LET id == parseId(p.requestId)
               r == submitMonitoringResult(ledger, Self, id, FALSE, 0)
           IN Sent(r, "submitMonitoringResult", id)
        /\ probes' = probes \ {p}
        /\ UNCHANGED <<shutdown, isRunning, assignedRequests, checkQueue,
                       isProcessingQueue, waiting, sync, now>>

\* Promise.allSettled of batch b resolves: finally isProcessingQueue = false
AllSettled ==
    \E b \in waiting :
        /\ Alive
        /\ \A p \in probes : p.batch # b
        /\ waiting' = waiting \ {b}
        /\ isProcessingQueue' = FALSE
        /\ UNCHANGED <<shutdown, isRunning, assignedRequests, checkQueue, probes, sync,
                       now>>
        /\ UNCHANGED ledgerVars

\* submitResult of probe p throws before the transaction reaches the ledger
\* (the RPC call fails): the catch block goes on to submit the error result
SubmitResultThrows ==
    \E p \in probes :
        /\ Alive
        /\ p.pc = "submitResult"
        /\ probes' = (probes \ {p}) \cup {[p EXCEPT !.pc = "submitErrorResult"]}
        /\ UNCHANGED <<shutdown, isRunning, assignedRequests, checkQueue,
                       isProcessingQueue, waiting, sync, now>>
        /\ UNCHANGED ledgerVars

\* the error result's submitResult throws before reaching the ledger: the
\* inner catch logs it and the probe is over
SubmitErrorResultThrows ==
    \E p \in probes :
        /\ Alive
        /\ p.pc = "submitErrorResult"
        /\ probes' = probes \ {p}
        /\ UNCHANGED <<shutdown, isRunning, assignedRequests, checkQueue,
                       isProcessingQueue, waiting, sync, now>>
        /\ UNCHANGED ledgerVars

\* stop(), called by the shutdown handler: isRunning is cleared and the jobs
\* are stopped; the handler awaits stopServices
Stop ==
    /\ shutdown = "idle"
    /\ isRunning
    /\ shutdown' = "stop"
    /\ isRunning' = FALSE
    /\ UNCHANGED <<assignedRequests, checkQueue, isProcessingQueue, probes,
                   waiting, sync, now>>
    /\ UNCHANGED ledgerVars

\* stop() has returned: the handler calls process.exit(0)
Exit ==
    /\ shutdown = "stop"
    /\ shutdown' = "exited"
    /\ UNCHANGED <<isRunning, assignedRequests, checkQueue, isProcessingQueue,
                   probes, waiting, sync, now>>
    /\ UNCHANGED ledgerVars

NodeInit ==
    /\ shutdown = "idle"
    /\ isRunning = FALSE
    /\ assignedRequests = <<>>
    /\ checkQueue = <<>>
    /\ isProcessingQueue = FALSE
    /\ probes = {}
    /\ waiting = {}
    /\ sync = NoSync
    /\ now = 0

NodeNext(in) ==
    \/ StartNode
    \/ CreateMonitoringRequest(in)
    \/ AdvanceClock
    \/ SyncWithBlockchain
    \/ GetRequestInfoReturns
    \/ GetRequestInfoThrows
    \/ ProcessCheckQueue(in)
    \/ HttpCheckReturns(in)
    \/ SubmitResultReturns
    \/ SubmitErrorResultReturns
    \/ AllSettled

LedgerInit ==
    /\ NodeInit
    /\ balances = deployContractsFixture.balances
    /\ allowances = deployContractsFixture.allowances
    /\ minimumStake = deployContractsFixture.minimumStake
    /\ consensusThreshold = deployContractsFixture.consensusThreshold
    /\ paused = deployContractsFixture.paused
    /\ nextRequestId = deployContractsFixture.nextRequestId
    /\ monitoringNodes = deployContractsFixture.monitoringNodes
    /\ monitoringRequests = deployContractsFixture.monitoringRequests
    /\ monitoringResults = deployContractsFixture.monitoringResults
    /\ requestNodes = deployContractsFixture.requestNodes
    /\ nodeRequests = deployContractsFixture.nodeRequests
    /\ activeNodes = deployContractsFixture.activeNodes
    /\ activeRequests = deployContractsFixture.activeRequests
    /\ last = NoCall
    /\ consensusCount = <<>>
    /\ submitLog = <<>>
    /\ txCount = 0

LedgerNext(in) ==
    \/ Approve(in)
    \/ RegisterNode(in)
    \/ UnregisterNode(in)
    \/ AddStake(in)
    \/ CreateMonitoringRequest(in)
    \/ DeactivateMonitoringRequest(in)
    \/ SubmitMonitoringResult(in)
    \/ SetMinimumStake(in)
    \/ SetConsensusThreshold(in)
    \/ Pause(in)
    \/ Unpause(in)
    \/ EmergencyWithdraw(in)

\* The calls the ledger is driven with.
Inputs ==
    [nodes |-> {"n1", "n2"},
     maxRequests |-> MaxRequests,
     maxTx |-> MaxTx,
     requests |-> {<<"https://example.com", 300, 5000, 1>>,
                   <<"", 300, 5000, 1>>,
                   <<"https://example.com", 59, 5000, 1>>,
                   <<"https://example.com", 300, 30001, 1>>,
                   <<"https://example.com", 300, 5000, 0>>},
     responseTimes |-> {200},
     amounts |-> {500},
     stakes |-> {0, 2000},
     thresholds |-> {51, 100},
     admins |-> {Owner},
     deactivators |-> {Requester, Owner},
     votes |-> [n \in Nodes |-> BOOLEAN],
     serial |-> FALSE]

\* The runs of one observer node: the requester creates requests with the
\* shortest interval, the node is the only observer.
NodeInputs ==
    [nodes |-> {Self},
     maxRequests |-> NodeRequests,
     maxTx |-> NodeRequests + 1,
     requests |-> {<<"https://example.com", 60, 5000, 1>>},
     responseTimes |-> {200},
     outcomes |-> {200},
     maxQueue |-> MaxQueue,
     votes |-> [n \in Nodes |-> {TRUE}],
     serial |-> FALSE]

vars == <<ledgerVars, nodeVars>>

Init == LedgerInit

Next == LedgerNext(Inputs)

Spec == Init /\ [][Next]_vars

\* Two observers that always disagree and submit in the committee's order, a
\* requester that waits for both to be registered and for each request to be
\* settled before the next.
FloorInputs ==
    [nodes |-> {"n1", "n2"},
     maxRequests |-> FloorRequests,
     maxTx |-> 2 + 3 * FloorRequests,
     requests |-> {<<"https://example.com", 60, 5000, 1>>},
     responseTimes |-> {200},
     amounts |-> {},
     votes |-> [n \in Nodes |-> IF n = "n1" THEN {TRUE} ELSE {FALSE}],
     serial |-> TRUE]

NextFloor ==
    \/ Approve(FloorInputs)
    \/ RegisterNode(FloorInputs)
    \/ CreateMonitoringRequest(FloorInputs)
    \/ SubmitMonitoringResult(FloorInputs)

SpecFloor == Init /\ [][NextFloor]_vars

\* Two observers and one request whose reward the custody left after an
\* emergencyWithdraw and later stake deposits covers once but not twice.
CustodyInputs ==
    [nodes |-> {"n1", "n2"},
     maxRequests |-> 1,
     maxTx |-> CustodyMaxTx,
     requests |-> {<<"https://example.com", 300, 5000, 600>>},
     responseTimes |-> {200},
     amounts |-> {500},
     admins |-> {Owner},
     votes |-> [n \in Nodes |-> BOOLEAN],
     serial |-> FALSE]

NextCustody ==
    \/ Approve(CustodyInputs)
    \/ RegisterNode(CustodyInputs)
    \/ AddStake(CustodyInputs)
    \/ CreateMonitoringRequest(CustodyInputs)
    \/ SubmitMonitoringResult(CustodyInputs)
    \/ EmergencyWithdraw(CustodyInputs)

SpecCustody == Init /\ [][NextCustody]_vars

\* Four addresses that register and unregister in any order around the
\* creation of a request, so that the active list is longer than a committee.
CommitteeInputs ==
    [nodes |-> Nodes,
     maxRequests |-> CommitteeRequests,
     maxTx |-> CommitteeMaxTx,
     requests |-> {<<"https://example.com", 300, 5000, 1>>},
     responseTimes |-> {200},
     amounts |-> {},
     deactivators |-> {Requester},
     votes |-> [n \in Nodes |-> {TRUE}],
     serial |-> FALSE]

NextCommittee ==
    \/ Approve(CommitteeInputs)
    \/ RegisterNode(CommitteeInputs)
    \/ UnregisterNode(CommitteeInputs)
    \/ CreateMonitoringRequest(CommitteeInputs)
    \/ DeactivateMonitoringRequest(CommitteeInputs)
    \/ SubmitMonitoringResult(CommitteeInputs)

SpecCommittee == Init /\ [][NextCommittee]_vars

\* One request, up to three observers, the response times of the example.
ConsensusInputs ==
    [nodes |-> {"n1", "n2", "n3"},
     maxRequests |-> 1,
     maxTx |-> ConsensusMaxTx,
     requests |-> {<<"https://example.com", 300, 5000, 1>>},
     responseTimes |-> {180, 200, 5000},
     amounts |-> {},
     thresholds |-> {51, 100},
     admins |-> {Owner},
     votes |-> [n \in Nodes |-> BOOLEAN],
     serial |-> FALSE]

NextConsensus ==
    \/ Approve(ConsensusInputs)
    \/ RegisterNode(ConsensusInputs)
    \/ CreateMonitoringRequest(ConsensusInputs)
    \/ SubmitMonitoringResult(ConsensusInputs)
    \/ SetConsensusThreshold(ConsensusInputs)

SpecConsensus == Init /\ [][NextConsensus]_vars

\* One request probed by the node: the target answers with a status below
\* or above 500 or not at all, after a short or a long time, and a
\* submission may fail on the way to the ledger.
ProbeInputs ==
    [nodes |-> {Self},
     maxRequests |-> 1,
     maxTx |-> 2,
     requests |-> {<<"https://example.com", 60, 5000, 1>>},
     responseTimes |-> {200, 5000},
     outcomes |-> {0, 200, 404, 499, 500, 503},
     maxQueue |-> MaxQueue,
     votes |-> [n \in Nodes |-> {TRUE}],
     serial |-> FALSE]

NextProbe ==
    \/ NodeNext(ProbeInputs)
    \/ SubmitResultThrows
    \/ SubmitErrorResultThrows

SpecProbe == Init /\ [][NextProbe]_vars

\* The node with two requests and the shutdown handler of index.js: the
\* signal may arrive at any moment after start, and nothing of the process
\* runs once it has exited.
ShutdownInputs ==
    [nodes |-> {Self},
     maxRequests |-> ShutdownRequests,
     maxTx |-> ShutdownRequests + 1,
     requests |-> {<<"https://example.com", 60, 5000, 1>>},
     responseTimes |-> {200},
     outcomes |-> {200},
     maxQueue |-> MaxQueue,
     votes |-> [n \in Nodes |-> {TRUE}],
     serial |-> FALSE]

NextShutdown ==
    \/ NodeNext(ShutdownInputs)
    \/ Stop
    \/ Exit

SpecShutdown == Init /\ [][NextShutdown]_vars

\* The node with three requests and room in the queue for the checks that a
\* tick leaves over while the next round becomes due.
QueueInputs ==
    [nodes |-> {Self},
     maxRequests |-> NodeRequests,
     maxTx |-> NodeRequests + 1,
     requests |-> {<<"https://example.com", 60, 5000, 1>>},
     responseTimes |-> {200},
     outcomes |-> {200},
     maxQueue |-> LongQueue,
     votes |-> [n \in Nodes |-> {TRUE}],
     serial |-> TRUE]

NextQueue ==
    \/ StartNode
    \/ CreateMonitoringRequest(QueueInputs)
    \/ AdvanceClock
    \/ SyncWithBlockchain
    \/ GetRequestInfoReturns
    \/ ProcessCheckQueue(QueueInputs)
    \/ HttpCheckReturns(QueueInputs)
    \/ SubmitResultReturns
    \/ SubmitErrorResultReturns
    \/ AllSettled

SpecQueue == Init /\ [][NextQueue]_vars

NextNode == NodeNext(NodeInputs)

SpecNode == Init /\ [][NextNode]_vars

-----------------------------------------------------------------------------
(* Properties of the ledger *)

\* the requests that exist
RequestIds == 1..(nextRequestId - 1)

\* the arguments createMonitoringRequest is tried with in every state
CreateArgs ==
    {"", "https://example.com"} \X {59, 60, 300} \X {30000, 30001} \X {0, 1}

ValidArgs == <<"https://example.com", 300, 5000, 1>>

TryCreate(args) ==
    createMonitoringRequest(ledger, Requester, args[1], args[2], args[3],
                            args[4])

HasEvent(evs, name) == EventsNamed(evs, name) # {}

\* C1: from a state of the unpaused contract in which A is not an active node
\* and holds balance and allowance of at least minimumStake, registerNode by A
\* followed by unregisterNode by A both succeed and leave A's balance as it
\* was, A's stake 0 and A inactive, whatever minimumStake is.
C1_RegisterThenUnregisterRestoresBalance ==
    \A a \in Nodes :
        (/\ ~paused
         /\ ~monitoringNodes[a].isActive
         /\ balances[a] >= minimumStake
         /\ allowances[a] >= minimumStake)
        => LET r1 == registerNode(ledger, a)
               r2 == unregisterNode(r1.s, a)
           IN /\ r1.ok
              /\ r2.ok
              /\ r2.s.balances[a] = balances[a]
              /\ r2.s.monitoringNodes[a].stake = 0
              /\ ~r2.s.monitoringNodes[a].isActive

\* C8: createMonitoringRequest is rejected whenever the URL is empty, the
\* interval is below 60, the timeout exceeds maxResponseTime or the reward is
\* 0, and such a call leaves the storage as it was: the ids stay consecutive
\* and every stored request has valid parameters.
BadArgs(args) ==
    \/ args[1] = ""
    \/ args[2] < 60
    \/ args[3] > maxResponseTime
    \/ args[4] = 0

C8_InvalidRequestRejected ==
    /\ \A args \in CreateArgs :
          BadArgs(args) => /\ ~TryCreate(args).ok
                           /\ TryCreate(args).s = ledger
    /\ nextRequestId = Len(monitoringRequests) + 1
    /\ \A i \in RequestIds :
          LET q == monitoringRequests[i] IN
          /\ q.id = i
          /\ ~BadArgs(<<q.url, q.interval, q.timeout, q.reward>>)
    /\ \A i \in 1..Len(activeRequests) : activeRequests[i] \in RequestIds
    /\ \A n \in Nodes : \A i \in 1..Len(nodeRequests[n]) :
          nodeRequests[n][i] \in RequestIds

\* a request exists, a valid creation would go through, and each kind of
\* invalid one is turned down with its reason
C8_Witness ==
    /\ nextRequestId = 2
    /\ last.op = "createMonitoringRequest"
    /\ TryCreate(ValidArgs).ok
    /\ TryCreate(<<"", 300, 5000, 1>>).reason = "URL cannot be empty"
    /\ TryCreate(<<"https://example.com", 59, 5000, 1>>).reason
          = "Interval must be at least 60 seconds"
    /\ TryCreate(<<"https://example.com", 300, 30001, 1>>).reason
          = "Timeout too high"
    /\ TryCreate(<<"https://example.com", 300, 5000, 0>>).reason
          = "Reward must be greater than 0"

\* C9: in the state right after deployment and funding, with no node
\* registered, createMonitoringRequest with a non-empty URL, interval 300,
\* timeout 5000 and a positive reward succeeds, emits
\* MonitoringRequestCreated and stores an active request under id 1.
C9_FixtureRequestCreated ==
    ledger = deployContractsFixture
    => LET r == TryCreate(ValidArgs) IN
       /\ r.ok
       /\ HasEvent(r.events, "MonitoringRequestCreated")
       /\ Len(r.s.monitoringRequests) = 1
       /\ r.s.monitoringRequests[1].requester = Requester
       /\ r.s.monitoringRequests[1].url = ValidArgs[1]
       /\ r.s.monitoringRequests[1].interval = ValidArgs[2]
       /\ r.s.monitoringRequests[1].isActive

Committee(r) == {requestNodes[r][i] : i \in 1..Len(requestNodes[r])}

AllSubmitted(r) == \A n \in Committee(r) : monitoringResults[r][n].isSubmitted

SettlementEvents(evs) ==
    EventsNamed(evs, "RewardDistributed") \cup EventsNamed(evs, "PenaltyApplied")

\* C2: ConsensusReached has been emitted for a request exactly once when
\* every committee member has submitted and not at all before; it is emitted,
\* together with the rewards and penalties, only in the
\* submitMonitoringResult call for that request that completes the
\* submissions, and reputations move in no other call but a registration.
C2_ConsensusState ==
    \A r \in RequestIds :
        /\ consensusCount[r] = IF AllSubmitted(r) THEN 1 ELSE 0
        /\ Len(submitLog[r]) <= Len(requestNodes[r])

C2_ConsensusStep ==
    /\ \A r \in 1..Len(consensusCount') :
          LET before == IF r <= Len(consensusCount) THEN consensusCount[r]
                        ELSE 0
              complete == /\ last'.op = "submitMonitoringResult"
                          /\ last'.id = r
                          /\ txCount' # txCount
                          /\ Len(submitLog'[r]) = Len(requestNodes'[r])
          IN /\ consensusCount'[r] # before => complete
             /\ complete => /\ consensusCount'[r] = before + 1
                            /\ before = 0
                            /\ Cardinality(ConsensusEvents(last'.events, r)) = 1
                            /\ Cardinality(SettlementEvents(last'.events))
                                  = Len(requestNodes'[r])
             /\ (txCount' # txCount /\ ~complete)
                  => ConsensusEvents(last'.events, r) = {}
    /\ (txCount' # txCount /\ SettlementEvents(last'.events) # {})
          => ConsensusEvents(last'.events, last'.id) # {}
    /\ \A n \in Nodes :
          monitoringNodes'[n].reputation # monitoringNodes[n].reputation
            => \/ last'.op = "registerNode" /\ last'.sender = n
               \/ EventsNamed(last'.events, "ConsensusReached") # {}

\* C2: consensus and settlement happen in exactly the submitMonitoringResult
\* call that completes a request's submissions, hence at most once per request.
C2_ConsensusExactlyOnce == []C2_ConsensusState /\ [][C2_ConsensusStep]_vars

\* a committee of two has just been completed under a threshold changed
\* after the request was created
C2_Witness ==
    \E r \in RequestIds :
        /\ Len(requestNodes[r]) = 2
        /\ consensusCount[r] = 1
        /\ consensusThreshold # InitialConsensusThreshold
        /\ last.op = "submitMonitoringResult"
        /\ last.id = r

RECURSIVE SumOver(_, _)
SumOver(f, set) ==
    IF set = {} THEN 0
    ELSE LET x == CHOOSE y \in set : TRUE IN f[x] + SumOver(f, set \ {x})

\* the orders in which the members of committee r can be listed
Orders(r) ==
    {order \in [1..Len(requestNodes[r]) -> Committee(r)] :
        \A i, j \in 1..Len(requestNodes[r]) : order[i] = order[j] => i = j}

\* C3: the ConsensusReached event of a request with n submitted results
\* under threshold t carries isUp = (upCount * 100 >= n * t) and the average
\* floor(sum of the response times / n), both taken over the submitted
\* results as a collection; the contract's counting gives the same counts in
\* whatever order the committee is gone through.
C3_ConsensusOutcome ==
    \A r \in RequestIds :
      /\ \A order \in Orders(r) :
            CountLoop(ledger, r, order, 1, <<0, 0, 0>>)
              = CountLoop(ledger, r, requestNodes[r], 1, <<0, 0, 0>>)
      /\ (last.op = "submitMonitoringResult" /\ last.id = r
            /\ ConsensusEvents(last.events, r) # {})
          => LET e == last.events[CHOOSE i \in ConsensusEvents(last.events, r) :
                                     TRUE]
                 n == Cardinality(Committee(r))
                 t == consensusThreshold
                 upCount == Cardinality({o \in Committee(r) :
                                           monitoringResults[r][o].isUp})
                 total == SumOver([o \in Committee(r) |->
                                     monitoringResults[r][o].responseTime],
                                  Committee(r))
             IN /\ AllSubmitted(r)
                /\ e.flag = (upCount * 100 >= n * t)
                /\ e.num * n <= total
                /\ total < (e.num + 1) * n

\* the example: three observers under threshold 66 submit up 200, up 180 and
\* down 5000 in an order that is not the committee's; consensus is up with
\* average 1793
C3_Witness ==
    \E r \in RequestIds :
        /\ Len(requestNodes[r]) = 3
        /\ consensusThreshold = 66
        /\ submitLog[r] # requestNodes[r]
        /\ {<<monitoringResults[r][o].isUp, monitoringResults[r][o].responseTime>> :
               o \in Committee(r)}
             = {<<TRUE, 200>>, <<TRUE, 180>>, <<FALSE, 5000>>}
        /\ \E i \in ConsensusEvents(last.events, r) :
              last.events[i].flag /\ last.events[i].num = 1793

\* C4: in the call that settles request r every committee member whose isUp
\* equals the consensus gets rewardPerCheck tokens from the contract, +1
\* reputation and +1 successfulChecks and a RewardDistributed event; every
\* other member gets no tokens, a PenaltyApplied event and -1 reputation but
\* never below 1; nobody outside the committee has balance or node record
\* changed, and the contract pays exactly the rewards.
C4_SettlementStep ==
    \A r \in 1..Len(consensusCount) :
      consensusCount'[r] > consensusCount[r] =>
        LET evs == last'.events
            e == evs[CHOOSE i \in ConsensusEvents(evs, r) : TRUE]
            reward == monitoringRequests[r].reward
            members == {requestNodes[r][i] : i \in 1..Len(requestNodes[r])}
            agreeing == {n \in members : monitoringResults'[r][n].isUp = e.flag}
            before(n) == IF n = last'.sender
                         THEN [monitoringNodes[n] EXCEPT !.totalChecks = @ + 1]
                         ELSE monitoringNodes[n]
            Rewards(n) == {i \in EventsNamed(evs, "RewardDistributed") :
                             evs[i].who = n}
            Penalties(n) == {i \in EventsNamed(evs, "PenaltyApplied") :
                               evs[i].who = n}
        IN /\ \A n \in agreeing :
                /\ balances'[n] = balances[n] + reward
                /\ monitoringNodes'[n] =
                     [before(n) EXCEPT !.reputation = @ + 1,
                                       !.successfulChecks = @ + 1]
                /\ Cardinality(Rewards(n)) = 1
                /\ Penalties(n) = {}
                /\ evs[CHOOSE i \in Rewards(n) : TRUE].num = reward
           /\ \A n \in members \ agreeing :
                /\ balances'[n] = balances[n]
                /\ monitoringNodes'[n] =
                     [before(n) EXCEPT !.reputation =
                                          IF @ > 1 THEN @ - 1 ELSE @]
                /\ monitoringNodes'[n].reputation >= 1
                /\ Cardinality(Penalties(n)) = 1
                /\ Rewards(n) = {}
           /\ \A a \in Accounts \ (members \cup {Contract}) :
                /\ balances'[a] = balances[a]
                /\ a \in Nodes => monitoringNodes'[a] = monitoringNodes[a]
           /\ balances'[Contract]
                = balances[Contract] - reward * Cardinality(agreeing)

\* C4: every step that settles a request pays and rates the committee as
\* C4_SettlementStep says.
C4_SettlementPaysAgreeingOnly == [][C4_SettlementStep]_vars

\* the last request has just been settled with one member rewarded and the
\* other penalised for the hundredth time: its reputation stays at 1
C4_Witness ==
    /\ nextRequestId > FloorRequests
    /\ consensusCount[FloorRequests] = 1
    /\ last.op = "submitMonitoringResult"
    /\ \E n \in Nodes :
          /\ monitoringNodes[n].reputation = 1
          /\ \E i \in EventsNamed(last.events, "PenaltyApplied") :
                last.events[i].who = n
    /\ EventsNamed(last.events, "RewardDistributed") # {}

\* C5: once an observer's result for a request is stored, every further
\* submitMonitoringResult by that observer for that request is rejected and
\* changes nothing, so that no observer ever submits twice for a request.
C5_DuplicateRejected ==
    \A r \in RequestIds :
        /\ \A o \in Nodes :
              /\ monitoringResults[r][o].isSubmitted <=> Contains(submitLog[r], o)
              /\ monitoringResults[r][o].isSubmitted
                   => \A isUp \in BOOLEAN, responseTime \in {0, 200} :
                        LET x == submitMonitoringResult(ledger, o, r, isUp,
                                                        responseTime)
                        IN ~x.ok /\ x.s = ledger
        /\ \A i, j \in 1..Len(submitLog[r]) :
              submitLog[r][i] = submitLog[r][j] => i = j

\* an observer that submitted, unregistered and registered again is turned
\* down when it submits for the same request, which is still active
C5_Witness ==
    \E r \in RequestIds : \E o \in Nodes :
        /\ monitoringResults[r][o].isSubmitted
        /\ monitoringRequests[r].isActive
        /\ last.op = "registerNode"
        /\ last.sender = o
        /\ submitMonitoringResult(ledger, o, r, TRUE, 200).reason
              = "Result already submitted"

-----------------------------------------------------------------------------
(* Properties of the node runtime *)

Keys(cache) == {cache[i].id : i \in 1..Len(cache)}

\* C6: the number of performMonitoringCheck executions in flight never
\* exceeds MAX_CONCURRENT_CHECKS; they all belong to the one batch whose
\* processCheckQueue call holds isProcessingQueue, and a tick that fires
\* meanwhile starts nothing.
C6_ProbesWithinLimit ==
    /\ Cardinality(probes) <= MAX_CONCURRENT_CHECKS
    /\ Cardinality(waiting) <= 1
    /\ \A p \in probes : p.batch \in waiting
    /\ waiting # {} => /\ isProcessingQueue
                       /\ processCheckQueue(node, now) = node

\* a full batch is in flight, a further due check waits in the queue, and
\* the tick that fires now returns at once
C6_Witness ==
    /\ Cardinality(probes) = MAX_CONCURRENT_CHECKS
    /\ Len(checkQueue) > 0
    /\ isProcessingQueue
    /\ processCheckQueue(node, now) = node

\* C7: no probe is started for an id that a sync has removed from the cache
\* (every check is started for an id the cache holds), and the step that
\* removes ids leaves the entries and the queued checks of the other ids as
\* they were.
C7_RemovedIdNeverProbed ==
    [][/\ \A p \in probes' \ probes :
             p.pc = "httpCheck" => p.requestId \in Keys(assignedRequests)
       /\ Keys(assignedRequests) \ Keys(assignedRequests') # {}
             => /\ \A i \in 1..Len(assignedRequests) :
                     assignedRequests[i].id \in Keys(assignedRequests')
                       => \E j \in 1..Len(assignedRequests') :
                             assignedRequests'[j] = assignedRequests[i]
                /\ checkQueue' = checkQueue]_vars

-----------------------------------------------------------------------------
(* Properties of the ledger: registration and submission *)

\* C11: registerNode by an address whose node record is active is rejected
\* and changes nothing, also when the address has the balance and the
\* allowance for a second stake; no address is in activeNodes twice.
C11_DoubleRegistrationRejected ==
    /\ \A a \in Nodes :
          monitoringNodes[a].isActive
            => /\ ~registerNode(ledger, a).ok
               /\ registerNode(ledger, a).s = ledger
    /\ \A i, j \in 1..Len(activeNodes) : activeNodes[i] = activeNodes[j] => i = j

\* an active node that has made a check and could pay a second stake is
\* turned down by the unpaused contract
C11_Witness ==
    \E a \in Nodes :
        /\ monitoringNodes[a].isActive
        /\ monitoringNodes[a].totalChecks > 0
        /\ ~paused
        /\ allowances[a] >= minimumStake
        /\ balances[a] >= minimumStake
        /\ registerNode(ledger, a).reason = "Node already registered"

\* the request ids a caller may name: those that exist, 0 and the next one
AnyId == 0..nextRequestId

\* C12: every stored result is from a member of the request's committee; a
\* result is stored only in a call by an active node for an existing active
\* request; submitMonitoringResult by an inactive node, for an unknown or
\* inactive request, or by a node outside the committee is rejected and
\* changes nothing.
C12_ResultsFromCommittee ==
    /\ \A r \in RequestIds : \A o \in Nodes :
          monitoringResults[r][o].isSubmitted => o \in Committee(r)
    /\ \A r \in AnyId : \A o \in Nodes :
          (\/ ~monitoringNodes[o].isActive
           \/ r \notin RequestIds
           \/ (r \in RequestIds /\ ~monitoringRequests[r].isActive)
           \/ (r \in RequestIds /\ o \notin Committee(r)))
            => \A isUp \in BOOLEAN :
                 LET x == submitMonitoringResult(ledger, o, r, isUp, 200)
                 IN ~x.ok /\ x.s = ledger

C12_SubmissionStep ==
    \A r \in RequestIds : \A o \in Nodes :
        (/\ ~monitoringResults[r][o].isSubmitted
         /\ monitoringResults'[r][o].isSubmitted)
          => /\ monitoringNodes[o].isActive
             /\ monitoringRequests[r].isActive
             /\ o \in Committee(r)
             /\ last'.op = "submitMonitoringResult"
             /\ last'.sender = o
             /\ last'.id = r

\* C12: results come from committee members only, in every state and step.
C12_OnlyCommitteeSubmits ==
    []C12_ResultsFromCommittee /\ [][C12_SubmissionStep]_vars

\* a committee member has submitted, and an active node registered after the
\* request was created is turned down
C12_Witness ==
    \E r \in RequestIds : \E o, x \in Nodes :
        /\ monitoringResults[r][o].isSubmitted
        /\ monitoringRequests[r].isActive
        /\ monitoringNodes[x].isActive
        /\ x \notin Committee(r)
        /\ submitMonitoringResult(ledger, x, r, TRUE, 200).reason
              = "Node not assigned to this request"

-----------------------------------------------------------------------------
(* Properties of the ledger: settlement and custody *)

\* member o's submission is the last one missing for request r
Completes(r, o) ==
    /\ monitoringRequests[r].isActive
    /\ o \in Committee(r)
    /\ monitoringNodes[o].isActive
    /\ ~monitoringResults[r][o].isSubmitted
    /\ \A x \in Committee(r) \ {o} : monitoringResults[r][x].isSubmitted

\* the rewards a settlement of r owes when o submits isUp last: one reward
\* for each member whose result equals the consensus
Owed(r, o, isUp) ==
    LET n == Cardinality(Committee(r))
        ups == Cardinality({x \in Committee(r) :
                              IF x = o THEN isUp
                              ELSE monitoringResults[r][x].isUp})
        up == ups * 100 >= n * consensusThreshold
    IN (IF up THEN ups ELSE n - ups) * monitoringRequests[r].reward

\* C13: a submission that completes a request while the contract holds less
\* than the rewards owed is rejected and changes nothing; a submission
\* credits a successful check only together with the reward; while no node
\* unregisters and all requests carry the same reward, every node holds its
\* funding less its stake plus one reward per successful check.
C13_State ==
    /\ \A r \in RequestIds : \A o \in Nodes : \A isUp \in BOOLEAN :
          (Completes(r, o) /\ balances[Contract] < Owed(r, o, isUp))
            => LET x == submitMonitoringResult(ledger, o, r, isUp, 200)
               IN ~x.ok /\ x.s = ledger
    /\ \A a \in Nodes :
          \A r \in RequestIds :
              balances[a] = FixtureTransfer - monitoringNodes[a].stake
                              + monitoringNodes[a].successfulChecks
                                  * monitoringRequests[r].reward

C13_Step ==
    \A a \in Nodes :
        (\/ monitoringNodes'[a].successfulChecks
               > monitoringNodes[a].successfulChecks
         \/ /\ monitoringNodes'[a].reputation > monitoringNodes[a].reputation
            /\ last'.op # "registerNode")
          => /\ last'.op = "submitMonitoringResult"
             /\ last'.id \in RequestIds
             /\ balances'[a]
                  = balances[a] + monitoringRequests[last'.id].reward
             /\ monitoringNodes'[a].successfulChecks
                  = monitoringNodes[a].successfulChecks + 1
             /\ monitoringNodes'[a].reputation
                  = monitoringNodes[a].reputation + 1

\* C13: a settlement that cannot pay every reward aborts the whole call.
C13_FailedTransferAbortsCall == []C13_State /\ [][C13_Step]_vars

\* the custody covers one reward and two are owed: the first member would be
\* paid, the second transfer fails, and the completing submission is refused
C13_Witness ==
    \E r \in RequestIds : \E o \in Nodes :
        /\ Completes(r, o)
        /\ balances[Contract] >= monitoringRequests[r].reward
        /\ balances[Contract] < Owed(r, o, TRUE)
        /\ submitMonitoringResult(ledger, o, r, TRUE, 200).reason
              = "ERC20InsufficientBalance"

-----------------------------------------------------------------------------
(* Properties of the ledger: owner parameters and pausing *)

\* the values a caller may pass as a threshold: the ends of the range, their
\* neighbours on both sides, and values well inside and outside
AnyThreshold == {0, 1, 50, 51, 52, 66, 99, 100, 101, 150}

\* C14: setConsensusThreshold by the owner with a value below 51 or above
\* 100 is rejected and changes nothing, with a value in 51..100 it succeeds
\* and stores the value changing nothing else; consensusThreshold is in
\* 51..100 in every reachable state.
C14_ThresholdInRange ==
    /\ consensusThreshold \in 51..100
    /\ \A v \in AnyThreshold :
          LET x == setConsensusThreshold(ledger, Owner, v) IN
          IF v < 51 \/ v > 100
          THEN ~x.ok /\ x.s = ledger
          ELSE x.ok /\ x.s = [ledger EXCEPT !.consensusThreshold = v]

\* the owner has moved the threshold to the lower end of the range, and the
\* next value below is refused
C14_Witness ==
    /\ last.op = "setConsensusThreshold"
    /\ consensusThreshold = 51
    /\ consensusThreshold # InitialConsensusThreshold
    /\ setConsensusThreshold(ledger, Owner, 50).reason
          = "Threshold must be between 51-100"
    /\ setConsensusThreshold(ledger, Owner, 101).reason
          = "Threshold must be between 51-100"

\* the storage once the owner has lifted the pause
Unpaused == unpause(ledger, Owner).s

\* C15: while paused, registerNode by any address and createMonitoringRequest
\* with any arguments are rejected and change nothing; unpause changes paused
\* only, and in the unpaused storage a registration by an inactive address
\* that can pay the stake and a valid request with an active node succeed;
\* pause changes paused only.
C15_State ==
    /\ paused =>
          /\ \A a \in Nodes :
                /\ ~registerNode(ledger, a).ok
                /\ registerNode(ledger, a).s = ledger
          /\ \A args \in CreateArgs \cup {ValidArgs} :
                ~TryCreate(args).ok /\ TryCreate(args).s = ledger
          /\ unpause(ledger, Owner).ok
          /\ Unpaused = [ledger EXCEPT !.paused = FALSE]
          /\ \A a \in Nodes :
                (/\ ~monitoringNodes[a].isActive
                 /\ allowances[a] >= minimumStake
                 /\ balances[a] >= minimumStake)
                  => registerNode(Unpaused, a).ok
          /\ activeNodes # <<>>
                => createMonitoringRequest(Unpaused, Requester, ValidArgs[1],
                      ValidArgs[2], ValidArgs[3], ValidArgs[4]).ok
    /\ ~paused =>
          /\ pause(ledger, Owner).ok
          /\ pause(ledger, Owner).s = [ledger EXCEPT !.paused = TRUE]

C15_PauseStep ==
    (txCount' # txCount /\ last'.op \in {"pause", "unpause"})
      => /\ paused' = (last'.op = "pause")
         /\ paused = ~paused'
         /\ UNCHANGED <<balances, allowances, minimumStake, consensusThreshold,
                        nextRequestId, monitoringNodes, monitoringRequests,
                        monitoringResults, requestNodes, nodeRequests,
                        activeNodes, activeRequests>>

\* C15: paused, registration and request creation fail; pausing and unpausing
\* touch nothing but the flag.
C15_PausedRejects == []C15_State /\ [][C15_PauseStep]_vars

\* the owner has just paused a contract that has an active node and an
\* address ready to register; both calls are refused now and succeed once
\* unpaused
C15_Witness ==
    /\ paused
    /\ last.op = "pause"
    /\ activeNodes # <<>>
    /\ minimumStake > 0
    /\ \E a \in Nodes :
          /\ registerNode(ledger, a).reason = "EnforcedPause"
          /\ registerNode(Unpaused, a).ok
    /\ TryCreate(ValidArgs).reason = "EnforcedPause"
    /\ createMonitoringRequest(Unpaused, Requester, ValidArgs[1],
          ValidArgs[2], ValidArgs[3], ValidArgs[4]).ok

-----------------------------------------------------------------------------
(* Properties of the ledger: the active lists and the committees *)

\* the entries of a list, as a set
Range(seq) == {seq[i] : i \in 1..Len(seq)}

NoDuplicates(seq) == \A i, j \in 1..Len(seq) : seq[i] = seq[j] => i = j

\* C16: activeNodes holds exactly the addresses whose node record is active,
\* each once.
C16_State ==
    /\ Range(activeNodes) = {a \in Nodes : monitoringNodes[a].isActive}
    /\ NoDuplicates(activeNodes)

\* C16: unregisterNode removes the caller only: the last entry takes the
\* caller's place and every other entry keeps its position; registerNode
\* appends the caller.
C16_Step ==
    /\ (txCount' # txCount /\ last'.op = "unregisterNode")
         => LET i == IndexOf(activeNodes, last'.sender)
                n == Len(activeNodes)
            IN /\ i > 0
               /\ Len(activeNodes') = n - 1
               /\ \A j \in 1..(n - 1) :
                     activeNodes'[j] = IF j = i THEN activeNodes[n]
                                       ELSE activeNodes[j]
               /\ ~monitoringNodes'[last'.sender].isActive
    /\ (txCount' # txCount /\ last'.op = "registerNode")
         => activeNodes' = Append(activeNodes, last'.sender)

\* C16: the active list and the isActive flags agree in every state, and
\* registration and unregistration change the list by the caller only.
C16_ActiveListExact == []C16_State /\ [][C16_Step]_vars

\* the first of four registered addresses has unregistered: the fourth took
\* its place in the list
C16_Witness ==
    /\ last.op = "unregisterNode"
    /\ Len(activeNodes) = 3
    /\ \E a \in Nodes \ {last.sender} :
          /\ monitoringNodes[a].isActive
          /\ activeNodes[1] = a
          /\ \E r \in RequestIds :
                Len(requestNodes[r]) = 3 /\ requestNodes[r][1] = last.sender
                  /\ a \notin Committee(r)

\* the committee createMonitoringRequest assigns from the list active
AssignedFrom(active) ==
    SubSeq(active, 1, IF Len(active) >= 3 THEN 3 ELSE Len(active))

\* C17: a committee has one to three members, none twice, and R is in
\* nodeRequests[O] exactly when O is in requestNodes[R].
C17_State ==
    \A r \in RequestIds :
        /\ Len(requestNodes[r]) \in 1..3
        /\ NoDuplicates(requestNodes[r])
        /\ \A o \in Nodes :
              Contains(nodeRequests[o], r) <=> o \in Committee(r)

\* C17: the step that creates request R sets requestNodes[R] to the first
\* min(3, length) entries of activeNodes in list order; no step changes the
\* committee of an existing request.
C17_Step ==
    /\ \A r \in RequestIds : requestNodes'[r] = requestNodes[r]
    /\ nextRequestId' # nextRequestId
         => /\ nextRequestId' = nextRequestId + 1
            /\ last'.op = "createMonitoringRequest"
            /\ activeNodes' = activeNodes
            /\ requestNodes'[nextRequestId] = AssignedFrom(activeNodes)

-----------------------------------------------------------------------------
(* Properties of the ledger: deactivation and stakes *)

\* the addresses that may call the contract
Callers == Nodes \cup {Owner}

\* C18: deactivateMonitoringRequest succeeds exactly for an existing active
\* request called by its requester or the owner; it then clears isActive of
\* that request, removes its id from activeRequests and changes nothing
\* else; otherwise it is rejected and changes nothing.  activeRequests holds
\* exactly the ids of the active requests, each once.  For an inactive
\* request every submitMonitoringResult is rejected and changes nothing.
C18_State ==
    /\ Range(activeRequests) = {r \in RequestIds : monitoringRequests[r].isActive}
    /\ NoDuplicates(activeRequests)
    /\ \A id \in AnyId : \A sender \in Callers :
          LET x == deactivateMonitoringRequest(ledger, sender, id)
              allowed == /\ id \in RequestIds
                         /\ monitoringRequests[id].isActive
                         /\ sender \in {monitoringRequests[id].requester, Owner}
          IN /\ x.ok <=> allowed
             /\ ~x.ok => x.s = ledger
             /\ x.ok =>
                  /\ ~x.s.monitoringRequests[id].isActive
                  /\ Range(x.s.activeRequests) = Range(activeRequests) \ {id}
                  /\ NoDuplicates(x.s.activeRequests)
                  /\ [x.s EXCEPT !.monitoringRequests[id].isActive = TRUE,
                                 !.activeRequests = activeRequests] = ledger
    /\ \A r \in RequestIds :
          ~monitoringRequests[r].isActive
            => \A o \in Nodes : \A isUp \in BOOLEAN :
                 LET y == submitMonitoringResult(ledger, o, r, isUp, 200)
                 IN ~y.ok /\ y.s = ledger

\* C18: a request's isActive is cleared only by deactivateMonitoringRequest
\* for its id, called by its requester or the owner, and is never set again;
\* the step leaves the other requests, the results and the nodes alone.
C18_Step ==
    \A r \in RequestIds :
        /\ ~monitoringRequests[r].isActive => ~monitoringRequests'[r].isActive
        /\ (monitoringRequests[r].isActive /\ ~monitoringRequests'[r].isActive)
             => /\ last'.op = "deactivateMonitoringRequest"
                /\ last'.id = r
                /\ last'.sender \in {monitoringRequests[r].requester, Owner}
                /\ \A q \in RequestIds \ {r} :
                      monitoringRequests'[q] = monitoringRequests[q]
                /\ UNCHANGED <<monitoringResults, monitoringNodes, requestNodes,
                               nodeRequests, activeNodes, balances>>

\* C18: only the requester or the owner deactivates, and deactivation is final.
C18_DeactivationFinal == []C18_State /\ [][C18_Step]_vars

\* the first of two requests has just been deactivated: the second is still
\* active, a member that had not submitted is refused, a second deactivation
\* is refused, and a node may not deactivate the other request
C18_Witness ==
    \E r, q \in RequestIds : \E o \in Nodes :
        /\ last.op = "deactivateMonitoringRequest"
        /\ last.id = r
        /\ r # q
        /\ activeRequests = <<q>>
        /\ monitoringNodes[o].isActive
        /\ o \in Committee(r)
        /\ ~monitoringResults[r][o].isSubmitted
        /\ submitMonitoringResult(ledger, o, r, TRUE, 200).reason
              = "Request not active"
        /\ deactivateMonitoringRequest(ledger, Owner, r).reason
              = "Request not active"
        /\ deactivateMonitoringRequest(ledger, o, q).reason = "Not authorized"

\* C19: every active node's recorded stake is at least the current
\* minimumStake.
C19_StakeAtLeastMinimum ==
    \A a \in Nodes :
        monitoringNodes[a].isActive
          => monitoringNodes[a].stake >= minimumStake

-----------------------------------------------------------------------------
(* Properties of the node: the scheduler during a pending submission *)

\* the ids of the cached requests that are due
DueIds ==
    {assignedRequests[i].id :
        i \in {j \in 1..Len(assignedRequests) :
                  assignedRequests[j].nextCheck <= now}}

\* C20: while a probe of an earlier batch waits for submitResult, a tick of
\* the queue processor still takes up every request that is due (its check
\* is started or queued) and starts at least one probe.
C20_TickDuringPendingSubmit ==
    (/\ isRunning
     /\ \E p \in probes : p.pc = "submitResult"
     /\ DueIds # {})
      => LET n == processCheckQueue(node, now) IN
         /\ n.probes # probes
         /\ \A id \in DueIds :
               \/ \E p \in n.probes \ probes : p.requestId = id
               \/ \E k \in 1..Len(n.checkQueue) : n.checkQueue[k].requestId = id

-----------------------------------------------------------------------------
(* Properties of the ledger: progress of a request, custody and counters *)

\* C25: in every reachable state, for every active request, the first
\* submitMonitoringResult of each committee member is accepted (so that the
\* request reaches consensus once all of them have called).
C25_FirstSubmissionAccepted ==
    \A r \in RequestIds : \A o \in Nodes : \A isUp \in BOOLEAN :
        (/\ monitoringRequests[r].isActive
         /\ o \in Committee(r)
         /\ ~monitoringResults[r][o].isSubmitted)
          => submitMonitoringResult(ledger, o, r, isUp, 200).ok

\* the recorded stakes of the active nodes, added up
ActiveStakes ==
    SumOver([a \in Nodes |-> IF monitoringNodes[a].isActive
                             THEN monitoringNodes[a].stake ELSE 0], Nodes)

\* C26: the contract's token balance is at least the sum of the recorded
\* stakes of the active nodes, and unregisterNode by an active node succeeds.
C26_CustodyCoversStakes ==
    /\ balances[Contract] >= ActiveStakes
    /\ \A a \in Nodes :
          (monitoringNodes[a].isActive /\ monitoringNodes[a].stake > 0)
            => unregisterNode(ledger, a).ok

\* C27: every node record has successfulChecks <= totalChecks.
C27_SuccessfulAtMostTotal ==
    \A a \in Nodes :
        monitoringNodes[a].successfulChecks <= monitoringNodes[a].totalChecks

-----------------------------------------------------------------------------
(* Properties of the node: the cache and the sync *)

\* the cache entry under key
EntryOf(cache, key) == cache[CHOOSE i \in 1..Len(cache) : cache[i].id = key]

\* the entries that stay cached across the step are the same objects with
\* the same nextCheck and lastChecked
KeptEntriesUntouched ==
    \A key \in Keys(assignedRequests) \cap Keys(assignedRequests') :
        EntryOf(assignedRequests', key) = EntryOf(assignedRequests, key)

\* the entries the step adds are due now and not yet checked
AddedEntriesDueNow ==
    \A key \in Keys(assignedRequests') \ Keys(assignedRequests) :
        /\ EntryOf(assignedRequests', key).nextCheck = now
        /\ EntryOf(assignedRequests', key).lastChecked = 0

\* C22: a step that changes the set of cached ids is a step of the sync run
\* (no ledger call, tick or probe step does it); a run that ends after its
\* last getRequestInfo leaves exactly the listed ids cached, a run with
\* nothing to ask for leaves exactly the ids of the list it got (the ledger's
\* list, or the empty list of a failed query); added entries have nextCheck =
\* now, and entries already cached and still listed are untouched.
C22_SyncStep ==
    /\ Keys(assignedRequests') # Keys(assignedRequests)
         => /\ UNCHANGED <<ledgerVars, checkQueue, isProcessingQueue, probes,
                           waiting, now, isRunning>>
            /\ KeptEntriesUntouched
            /\ AddedEntriesDueNow
            /\ sync.pc = "idle"
                 => /\ sync'.pc = "idle"
                    /\ Keys(assignedRequests')
                         \in {Range(getAssignedRequests(ledger, Self)), {}}
            /\ sync.pc = "getRequestInfo"
                 => /\ Keys(assignedRequests') \ Keys(assignedRequests)
                         = {sync.list[sync.i]}
                    /\ sync'.pc = "idle"
                         => Keys(assignedRequests') = Range(sync.list)
                    /\ sync'.pc # "idle"
                         => /\ sync'.list = sync.list
                            /\ Keys(assignedRequests) \subseteq
                                 Keys(assignedRequests')
    /\ sync' # sync => KeptEntriesUntouched

\* all cached ids are distinct
C22_State ==
    \A i, j \in 1..Len(assignedRequests) :
        assignedRequests[i].id = assignedRequests[j].id => i = j

C29_Step ==
    \A key \in Keys(assignedRequests) :
        key \in Range(getAssignedRequests(ledger, Self))
          => /\ key \in Keys(assignedRequests')
             /\ EntryOf(assignedRequests', key).obj
                  = EntryOf(assignedRequests, key).obj

\* C29: a sync run whose query for the assignment list fails leaves the cache
\* as it is: an id the ledger still lists for the node is never removed from
\* the cache, and its entry is never replaced by a fresh one.
C29_FailedQueryKeepsCache == [][C29_Step]_vars

-----------------------------------------------------------------------------
(* Properties of the node: probes and their results *)

\* C23: httpCheck reports up exactly for a status below 500 received in
\* time; a probe that reports down carries responseTime 0, and so does the
\* result stored on the ledger for it.
C23_DownReportsZero ==
    /\ \A status \in ProbeInputs.outcomes :
          \A elapsed \in ProbeInputs.responseTimes :
              httpCheck(status, elapsed).isUp <=> (status # 0 /\ status < 500)
    /\ \A p \in probes :
          (p.pc = "submitResult" /\ ~p.isUp) => p.responseTime = 0
    /\ \A r \in RequestIds :
          (monitoringResults[r][Self].isSubmitted
             /\ ~monitoringResults[r][Self].isUp)
            => monitoringResults[r][Self].responseTime = 0

\* the result stored for the node in this step is the one its probe observed
C28_Step ==
    \A r \in RequestIds :
        (/\ ~monitoringResults[r][Self].isSubmitted
         /\ monitoringResults'[r][Self].isSubmitted)
          => \E p \in probes \ probes' :
                /\ parseId(p.requestId) = r
                /\ monitoringResults'[r][Self].isUp = p.isUp

\* C28: every result the node gets stored on the ledger carries the isUp of
\* the probe it belongs to, also when the first submission attempt failed.
C28_SubmittedIsObserved == [][C28_Step]_vars

-----------------------------------------------------------------------------
(* Properties of the node: shutdown *)

\* once the process has exited no probe is left unfinished
C24_State == shutdown = "exited" => probes = {}

\* once stop() has begun no probe is started and the cache is not changed
C24_Step ==
    shutdown # "idle"
      => /\ \A p \in probes' \ probes : p.pc # "httpCheck"
         /\ Keys(assignedRequests') = Keys(assignedRequests)

\* C24: after stop() has begun no probe is started and no cached request is
\* added or removed, and the process exits only when every probe that was in
\* flight has finished and its submission has been attempted.
C24_ShutdownDrains == []C24_State /\ [][C24_Step]_vars

-----------------------------------------------------------------------------
(* Properties of the node: the queue *)

\* the positions of the cached requests that are due
DuePositions ==
    {i \in 1..Len(assignedRequests) : assignedRequests[i].nextCheck <= now}

\* the jobs a tick has before it, in the order they are to be taken: the
\* queued ones as they stand, then one for each due request in cache order
JobAt(r) ==
    IF r <= Len(checkQueue) THEN checkQueue[r]
    ELSE LET i == CHOOSE j \in DuePositions :
                     Cardinality({k \in DuePositions : k <= j})
                        = r - Len(checkQueue)
         IN [requestId |-> assignedRequests[i].id,
             request |-> assignedRequests[i].obj,
             priority |-> 0, timestamp |-> now]

\* a step in which a tick of the queue processor did something
TickRan ==
    \/ checkQueue' # checkQueue
    \/ \E p \in probes' \ probes : p.pc = "httpCheck"
    \/ \E i \in 1..Len(assignedRequests) :
          /\ i <= Len(assignedRequests')
          /\ assignedRequests'[i].obj = assignedRequests[i].obj
          /\ assignedRequests'[i].nextCheck # assignedRequests[i].nextCheck

\* C21: the queue is in order (higher priority first, then earlier
\* timestamp) and holds no job stamped later than now.
C21_State ==
    /\ \A k \in 1..Len(checkQueue) : checkQueue[k].timestamp <= now
    /\ \A k \in 1..(Len(checkQueue) - 1) :
          \/ checkQueue[k].priority > checkQueue[k + 1].priority
          \/ /\ checkQueue[k].priority = checkQueue[k + 1].priority
             /\ checkQueue[k].timestamp <= checkQueue[k + 1].timestamp

\* C21: a tick that runs gives every due request one job stamped now and
\* sets its nextCheck to now + interval * 1000; of the jobs then at hand, the
\* queued ones first and the new ones after them, it starts the first
\* MAX_CONCURRENT_CHECKS and leaves every other one queued in the same order.
C21_Step ==
    TickRan =>
      LET total == Len(checkQueue) + Cardinality(DuePositions)
          taken == IF total < MAX_CONCURRENT_CHECKS THEN total
                   ELSE MAX_CONCURRENT_CHECKS
          started == probes' \ probes
      IN /\ isRunning /\ ~isProcessingQueue
         /\ Len(assignedRequests') = Len(assignedRequests)
         /\ \A i \in 1..Len(assignedRequests) :
               assignedRequests'[i] =
                   IF i \in DuePositions
                   THEN [assignedRequests[i] EXCEPT
                           !.nextCheck = now + assignedRequests[i].interval * 1000]
                   ELSE assignedRequests[i]
         /\ Cardinality(started) = taken
         /\ Len(checkQueue') = total - taken
         /\ \A r \in 1..total :
               IF r <= taken
               THEN \E p \in started :
                       /\ p.slot = r /\ p.pc = "httpCheck"
                       /\ p.requestId = JobAt(r).requestId
                       /\ p.request = JobAt(r).request
               ELSE checkQueue'[r - taken] = JobAt(r)

JobIds ==
    {checkQueue[k].requestId : k \in 1..Len(checkQueue)}
        \cup {p.requestId : p \in probes}

\* C30: the check queue and the probes in flight together hold at most one
\* job for each request id.
C30_OneJobPerRequest ==
    \A id \in JobIds :
        Cardinality({k \in 1..Len(checkQueue) : checkQueue[k].requestId = id})
          + Cardinality({p \in probes : p.requestId = id}) <= 1

====
